---- MODULE Spec2Model ----
(***************************************************************************)
(* Model of src/src/leaderboard.py: the Leaderboard result cache, the      *)
(* snapshot file and the thread-pool evaluation round of                   *)
(* evaluate_all_models, over the life of several processes sharing one     *)
(* output directory.                                                       *)
(*                                                                         *)
(* Persistent state (files): cache, snapshot.  Volatile state (one         *)
(* process): everything else.  A process is the sequence                   *)
(*   __init__ ; evaluate_all_models ; exit                                 *)
(* of main(); it can be interrupted by SIGINT or killed at any point.      *)
(* Threads interleave at the granularity of the file operations: a file    *)
(* opened with mode 'w' is truncated at open and holds its new content     *)
(* when the with-block closes it.                                          *)
(*                                                                         *)
(* Specifications:                                                         *)
(*   Spec        processes of main() on one directory, with SIGINT, kills  *)
(*   SpecRound   one process of main() on a directory earlier runs filled  *)
(*   SpecApi     evaluate_model called directly, one call after the other  *)
(*   SpecKey     _get_cache_key on pairs of parameter sets                 *)
(*   SpecReport  generate_markdown on bounded result dictionaries          *)
(***************************************************************************)
EXTENDS Integers, Sequences, FiniteSets, TLC

\* ------------------------------------------------------------------ bounds

\* Number of processes (runs of main) a behaviour starts.
MaxRuns == 2

\* ThreadPoolExecutor(max_workers=self.max_workers) of this configuration.
max_workers == 2

\* ----------------------------------------------------------- configuration

None == "None"

\* Model names are character sequences, so that replace('/', '_') is computed.
MA == <<"o", "/", "a">>
MB == <<"b">>
MC == <<"c", "_", "x">>

\* self.config['model_list'] as a set (line 194).
config_models == {MA, MB, MC}

\* Models with a per-model section in the configuration (temp_config[model_name]).
config_sections == {MA, MB}

\* The system_prompts argument of evaluate_all_models; .get gives None when absent.
system_prompts == [m \in {MA, MC} |-> IF m = MA THEN "pa" ELSE "pc"]

PromptOf(m) == IF m \in DOMAIN system_prompts THEN system_prompts[m] ELSE None

\* results.score values the evaluator can return.
Scores == {1, 2}

\* ------------------------------------------------------------- file contents

Absent == [st |-> "absent"]
\* A file opened with 'w' and not yet closed (or left so by a dying writer):
\* empty or cut short, json.load raises on it.
Partial == [st |-> "partial"]

EmptyDict == [i \in {} |-> None]

\* model_name.replace('/', '_')
SafeName(model_name) ==
    [i \in DOMAIN model_name |-> IF model_name[i] = "/" THEN "_" ELSE model_name[i]]

\* self.config.get('num_examples'), .get('temperature'), .get('max_tokens')
\* of the loaded configuration.
config == [num_examples |-> 1, temperature |-> 0, max_tokens |-> 1]

\* json.dumps of an optional string: null, or the string in quotes.
JsonStr(s) == IF s = None THEN <<"null">> ELSE <<"str", s>>

\* Lines 40-49: cache_str, the JSON of cache_data with sort_keys=True (the
\* values in the order of the keys max_tokens, model_name, num_examples,
\* system_prompt, temperature).  Its md5 hexdigest is taken as collision-free,
\* so the key is represented by cache_str itself.
CacheStr(model_name, system_prompt, cfg) ==
    <<cfg.max_tokens, SafeName(model_name), cfg.num_examples,
      JsonStr(system_prompt), cfg.temperature>>

_get_cache_key(model_name, system_prompt) == CacheStr(model_name, system_prompt, config)

KeyOf(m) == _get_cache_key(m, PromptOf(m))

\* A model measured by an earlier process and no longer configured.
MD == <<"d">>

\* System prompts evaluate_model is called with, over all processes.
Prompts == {None, "pa", "pb", "pc"}

CacheKeys == {_get_cache_key(m, p) : m \in config_models \cup {MD}, p \in Prompts}

\* The model_result dictionary of evaluate_model (total_tokens and
\* evaluation_time are opaque measurements and are left out).
ModelResult(m, score, prompt, ts) ==
    [model_name |-> m, score |-> score, system_prompt |-> prompt,
     timestamp |-> ts, cache_key |-> _get_cache_key(m, prompt)]

\* The key f"{model_name}_{timestamp}" of self.results.
ResultId(r) == <<r.model_name, r.timestamp>>

IsRecord(c) == c # Absent /\ c # Partial

\* dict[key] = value
Put(d, k, v) == [x \in DOMAIN d \cup {k} |-> IF x = k THEN v ELSE d[x]]

\* dict.update(other)
Update(d, e) == [x \in DOMAIN d \cup DOMAIN e |-> IF x \in DOMAIN e THEN e[x] ELSE d[x]]

\* -------------------------------------------------------------------- state

VARIABLES
    cache,            \* cache_dir: cache key -> Absent | Partial | record
    snapshot,         \* leaderboard_results.json: Absent | Partial | dict
    now,              \* the clock datetime.now() reads, one tick per process
    runs,             \* processes started so far
    pcMain,           \* position of the main thread; "off": no process
    exitPath,         \* how the last process ended
    handler,          \* the installed SIGINT handler
    executor,         \* the closure variable executor of handle_sigint
    exc,              \* exception propagating in the main thread
    config_prompt,    \* self.config[model]['system_prompt'] of each section
    results,          \* self.results
    measured_models,  \* local of evaluate_all_models
    new_models,       \* local of evaluate_all_models
    missing_models,   \* local of evaluate_all_models
    futures,          \* the list futures, in submission order
    ci,               \* index in futures of the future the collector is at
    task,             \* per model: the work item / future given to the pool
    report,           \* per model: what the collecting loop said of its future
    dumping,          \* per thread: inside _save_results, the keys being dumped
    intr,             \* a SIGINT was delivered to this process
    lastReport,       \* report of the previous process
    lastExit,         \* exitPath of the previous process
    doneBefore,       \* models whose evaluation record was written by an earlier process
    file_results,     \* local of _load_results: what the snapshot file held
    evals,            \* per cache key: calls of the evaluator in this process
    served,           \* cache keys for which evaluate_model returned a record
    calls,            \* direct calls of evaluate_model made so far
    traversal,        \* self.results.values() as generate_markdown iterates it
    rows,             \* the table rows of generate_markdown
    params,           \* two parameter sets handed to the key derivation
    derived           \* the cache keys derived from params

vars == <<cache, snapshot, now, runs, pcMain, exitPath, handler, executor, exc,
          config_prompt, results, measured_models, new_models, missing_models,
          futures, ci, task, report, dumping, intr, lastReport, lastExit, doneBefore,
          file_results, evals, served, calls, traversal, rows, params, derived>>

files == <<cache, snapshot>>
ghosts == <<lastReport, lastExit, doneBefore>>
inputs == <<calls, params, derived>>
markdown == <<traversal, rows>>
aside == <<file_results, evals, served, markdown, inputs>>

Main == <<"main">>
Threads == {Main} \cup config_models
Idle == [open |-> FALSE, keys |-> {}]

Dumping(keys) == [open |-> TRUE, keys |-> keys]

NoResult == [st |-> "none"]

\* The snapshot file holding the dump of a dictionary.
Dict(d) == [st |-> "dict", d |-> d]

\* prompt: the system_prompt argument of the call (args of lines 216-219);
\* sampler_prompt: the system_prompt of the model's section in temp_config,
\* which line 129 dumps for the sampler of line 132.
NoTask == [pc |-> "none", err |-> None, cached |-> FALSE, result |-> NoResult,
           prompt |-> None, sampler_prompt |-> None]

\* Positions of a work item at which its cache record has been written by
\* line 159 (a RuntimeError can only come from line 163, after it).
Wrote(t) ==
    \/ t.pc \in {"insert", "snap"}
    \/ t.pc = "returned" /\ ~t.cached
    \/ t.pc = "raised" /\ t.err = "RuntimeError"

Finished(t) == t.pc \in {"returned", "raised"}

Started(t) == t.pc \notin {"none", "queued"}

Running(t) == Started(t) /\ ~Finished(t)

Submitted == {futures[i] : i \in DOMAIN futures}

\* ---------------------------------------------------------- cache directory

CacheRecords(c) == {c[k] : k \in {x \in DOMAIN c : IsRecord(c[x])}}

\* json.load raises on a cut-short file: one such file makes a scan raise.
ScanRaises(c) == \E k \in DOMAIN c : c[k] = Partial

\* Lines 52-58: None (NoResult), the record, or json.load's error.
JSONDecodeError == [st |-> "JSONDecodeError"]

\* A lookup that finds no entry.
CacheMiss(c, cache_key) == NoResult

_get_cached_result(c, cache_key) ==
    IF c[cache_key] = Absent THEN NoResult
    ELSE IF c[cache_key] = Partial THEN JSONDecodeError
    ELSE c[cache_key]

\* The models with a record under the key of their present system prompt.
MeasuredByKey(c) ==
    {r.model_name : r \in {x \in CacheRecords(c) : x.cache_key = KeyOf(x.model_name)}}

\* Lines 175-183 (when no file makes json.load raise).
_get_measured_models(c) == {r.model_name : r \in CacheRecords(c)}

\* Lines 70-77: the dictionaries the glob loop can build; when two files hold
\* the same (model_name, timestamp), the file globbed last stays.
LoadedFromCache(c) ==
    LET recs == CacheRecords(c)
        ids  == {ResultId(r) : r \in recs}
    IN  {d \in [ids -> recs] : \A i \in ids : ResultId(d[i]) = i}

\* The cache applied after the snapshot.
CacheOverSnapshot(c, s) ==
    {Update(IF s = Absent THEN EmptyDict ELSE s.d, d) : d \in LoadedFromCache(c)}

\* Lines 66-85: the possible values of self.results after __init__.
_load_results(c, s) ==
    {Update(d, IF s = Absent THEN EmptyDict ELSE s.d) : d \in LoadedFromCache(c)}

LoadRaises(c, s) == ScanRaises(c) \/ s = Partial

\* Lines 203-212: for each configured, measured model the first globbed file
\* of that model is put into self.results (glob order is not fixed).
Hydrations(c, res, measured) ==
    LET ms    == config_models \cap measured
        recs  == CacheRecords(c)
        picks == {f \in [ms -> recs] : \A m \in ms : f[m].model_name = m}
    IN  {Update(res, [i \in {ResultId(f[m]) : m \in ms} |->
                        f[CHOOSE m \in ms : ResultId(f[m]) = i]]) : f \in picks}

\* ---------------------------------------------------------- generate_markdown

\* A comparison that lets a later record of equal score take the place.
NotWorse(result, best) == result.score >= best.score

\* Line 284: result['score'] > model_best_results[model_name]['score'].
Better(result, best) == result.score > best.score

\* Lines 281-286: the scan of self.results.values().  model_best_results is a
\* dictionary: order is the order in which its keys were first put, best
\* its values.
RECURSIVE Scan(_, _)
Scan(acc, vals) ==
    IF vals = << >> THEN acc
    ELSE LET result     == Head(vals)
             model_name == result.model_name
         IN  Scan(IF model_name \notin DOMAIN acc.best
                  THEN [order |-> Append(acc.order, model_name),
                        best  |-> Put(acc.best, model_name, result)]
                  ELSE IF Better(result, acc.best[model_name])
                  THEN [acc EXCEPT !.best[model_name] = result]
                  ELSE acc,
                  Tail(vals))

model_best_results(vals) ==
    LET acc == Scan([order |-> << >>, best |-> EmptyDict], vals)
    IN  [i \in DOMAIN acc.order |-> acc.best[acc.order[i]]]

\* Lines 289-293: sorted(..., key=score, reverse=True); the sort is stable,
\* records of equal score stay in the order they had.
RECURSIVE sorted(_)
sorted(vals) ==
    IF vals = << >> THEN << >>
    ELSE LET front == sorted(SubSeq(vals, 1, Len(vals) - 1))
             x     == vals[Len(vals)]
             k     == Cardinality({i \in DOMAIN front : front[i].score >= x.score})
         IN  SubSeq(front, 1, k) \o <<x>> \o SubSeq(front, k + 1, Len(front))

\* Lines 297-315: the cells of one row that identify the record (tokens, time
\* and the links are formatted from the same record).
Row(result) ==
    [model_name    |-> result.model_name,
     score         |-> result.score,
     system_prompt |-> IF result.system_prompt \in {None, ""} THEN "None"
                       ELSE result.system_prompt,
     timestamp     |-> result.timestamp]

\* A table with one row for every record.
OneRowPerRecord(vals) == [i \in DOMAIN vals |-> Row(vals[i])]

\* Lines 271-321: the rows of the table, top to bottom.
generate_markdown(vals) ==
    LET sorted_results == sorted(model_best_results(vals))
    IN  [i \in DOMAIN sorted_results |-> Row(sorted_results[i])]

\* The orders in which self.results.values() can come (insertion order of the
\* dictionary; the globs that filled it have no fixed order).
Orderings(d) ==
    LET n == Cardinality(DOMAIN d)
    IN  {[i \in 1..n |-> d[f[i]]] :
            f \in {g \in [1..n -> DOMAIN d] : \A i, j \in 1..n : g[i] = g[j] => i = j}}

\* --------------------------------------------------------------- the process

\* An empty output directory.
InitStore ==
    /\ cache = [k \in CacheKeys |-> Absent]
    /\ snapshot = Absent

\* The memory of a process in which nothing has run.
InitMemory ==
    /\ exitPath = "none"
    /\ handler = "default"
    /\ executor = "unbound"
    /\ exc = None
    /\ config_prompt = [m \in config_sections |-> None]
    /\ results = EmptyDict
    /\ measured_models = {}
    /\ new_models = {}
    /\ missing_models = {}
    /\ futures = << >>
    /\ ci = 1
    /\ task = [m \in config_models |-> NoTask]
    /\ report = [m \in config_models |-> "none"]
    /\ dumping = [t \in Threads |-> Idle]
    /\ intr = FALSE
    /\ lastReport = [m \in config_models |-> "none"]
    /\ lastExit = "none"
    /\ doneBefore = {}
    /\ file_results = EmptyDict
    /\ evals = [k \in CacheKeys |-> 0]
    /\ served = {}

\* No process yet.
InitProcess ==
    /\ InitMemory
    /\ now = 0
    /\ runs = 0
    /\ pcMain = "off"

InitCalls == calls = 0

InitMarkdown == traversal = << >> /\ rows = << >>

InitKeys == params = << >> /\ derived = << >>

Init == InitStore /\ InitProcess /\ InitCalls /\ InitMarkdown /\ InitKeys

\* What a new process starts from: nothing of the old process's memory.
FreshMemory ==
    /\ handler' = "default"
    /\ executor' = "unbound"
    /\ exc' = None
    /\ config_prompt' = [m \in config_sections |-> None]
    /\ measured_models' = {}
    /\ new_models' = {}
    /\ missing_models' = {}
    /\ futures' = << >>
    /\ ci' = 1
    /\ task' = [m \in config_models |-> NoTask]
    /\ report' = [m \in config_models |-> "none"]
    /\ dumping' = [t \in Threads |-> Idle]
    /\ intr' = FALSE
    /\ evals' = [k \in CacheKeys |-> 0]
    /\ served' = {}
    /\ traversal' = << >>
    /\ rows' = << >>

\* main(): Leaderboard('configs/run.yaml'), lines 18-36.  __init__ ends in
\* _load_results, which has no handler for json.load's error.
Startup ==
    /\ pcMain = "off"
    /\ runs < MaxRuns
    /\ runs' = runs + 1
    /\ now' = now + 1
    /\ FreshMemory
    /\ lastReport' = report
    /\ lastExit' = exitPath
    /\ doneBefore' = doneBefore \cup {m \in config_models : Wrote(task[m])}
    /\ IF LoadRaises(cache, snapshot)
       THEN /\ pcMain' = "off"
            /\ exitPath' = "startup_error"
            /\ results' = EmptyDict
            /\ file_results' = EmptyDict
       ELSE /\ pcMain' = "ready"
            /\ exitPath' = "none"
            /\ results' \in _load_results(cache, snapshot)
            /\ file_results' = IF snapshot = Absent THEN EmptyDict ELSE snapshot.d
    /\ UNCHANGED <<files, inputs>>

\* evaluate_all_models, lines 187-221: the measured models, the new models,
\* and the hydration of self.results from the cache.
Plan ==
    /\ pcMain = "ready"
    /\ IF ScanRaises(cache)
       THEN /\ pcMain' = "off"
            /\ exitPath' = "crash"
            /\ UNCHANGED <<measured_models, new_models, results>>
       ELSE /\ measured_models' = _get_measured_models(cache)
            /\ new_models' = config_models \ measured_models'
            /\ results' \in Hydrations(cache, results, measured_models')
            /\ pcMain' = IF new_models' # {} THEN "install" ELSE "missing"
            /\ UNCHANGED exitPath
    /\ UNCHANGED <<files, now, runs, handler, executor, exc, config_prompt,
                   missing_models, futures, ci, task, report, dumping, intr, ghosts, aside>>

\* Lines 228-229: signal.signal(signal.SIGINT, handle_sigint).
Install ==
    /\ pcMain = "install"
    /\ handler' = "handle_sigint"
    /\ pcMain' = "pool"
    /\ UNCHANGED <<files, now, runs, exitPath, executor, exc, config_prompt,
                   results, measured_models, new_models, missing_models, futures,
                   ci, task,
                   report, dumping, intr, ghosts, aside>>

\* Lines 231-232: with ThreadPoolExecutor(...) as executor.
OpenPool ==
    /\ pcMain = "pool"
    /\ executor' = "open"
    /\ pcMain' = "submit"
    /\ UNCHANGED <<files, now, runs, exitPath, handler, exc, config_prompt,
                   results, measured_models, new_models, missing_models, futures,
                   ci, task,
                   report, dumping, intr, ghosts, aside>>

\* Lines 234-236: one executor.submit; new_models is a set, its iteration
\* order is not fixed.  After the last one the collecting loop starts.
Submit(m) ==
    /\ pcMain = "submit"
    /\ m \in new_models \ Submitted
    /\ futures' = Append(futures, m)
    /\ task' = [task EXCEPT ![m].pc = "queued", ![m].prompt = PromptOf(m)]
    /\ pcMain' = IF new_models \ Submitted = {m} THEN "collect" ELSE "submit"
    /\ UNCHANGED <<files, now, runs, exitPath, handler, executor, exc,
                   config_prompt, results, measured_models, new_models,
                   missing_models, ci, report, dumping, intr, ghosts, aside>>

\* ------------------------------------------------------------ _save_results

\* Lines 90-91, the close of the with-block: the thread's dump of self.results
\* lands at offset 0.  A dump that is shorter than what another writer left
\* there since the truncation leaves that writer's tail behind it.
CloseContent(t) ==
    LET mine == [i \in dumping[t].keys |-> results[i]]
    IN  IF snapshot.st = "dict" /\ ~(DOMAIN snapshot.d \subseteq DOMAIN mine)
        THEN Partial
        ELSE Dict(mine)

\* ------------------------------------------------------------- pool workers

RunningTasks == {m \in config_models : Running(task[m])}

\* The work queue is first in, first out.
FirstQueued(m) ==
    \E i \in DOMAIN futures :
        /\ futures[i] = m
        /\ \A j \in 1..(i - 1) : task[futures[j]].pc # "queued"

\* A worker takes the work item: evaluate_model, lines 105-129.
Start(m) ==
    /\ pcMain # "off"
    /\ task[m].pc = "queued"
    /\ FirstQueued(m)
    /\ Cardinality(RunningTasks) < max_workers
    /\ LET system_prompt == task[m].prompt
           cache_key     == _get_cache_key(m, system_prompt)
           cached_result == _get_cached_result(cache, cache_key)
       IN  IF cached_result = JSONDecodeError
           THEN /\ task' = [task EXCEPT ![m].pc = "raised", ![m].err = "JSONDecodeError"]
                /\ UNCHANGED <<config_prompt, evals, served>>
           ELSE IF cached_result # NoResult
           THEN /\ task' = [task EXCEPT ![m].pc = "returned", ![m].cached = TRUE,
                                        ![m].result = cached_result]
                /\ served' = served \cup {cache_key}
                /\ UNCHANGED <<config_prompt, evals>>
           ELSE IF system_prompt # None /\ m \notin config_sections
           THEN /\ task' = [task EXCEPT ![m].pc = "raised", ![m].err = "KeyError"]
                /\ UNCHANGED <<config_prompt, evals, served>>
           ELSE /\ config_prompt' =
                      IF system_prompt # None
                      THEN [config_prompt EXCEPT ![m] = system_prompt]
                      ELSE config_prompt
                /\ task' = [task EXCEPT ![m].pc = "eval",
                                        ![m].sampler_prompt =
                                            IF m \in config_sections
                                            THEN config_prompt'[m] ELSE None]
                /\ evals' = [evals EXCEPT ![cache_key] = @ + 1]
                /\ UNCHANGED served
    /\ UNCHANGED <<files, now, runs, pcMain, exitPath, handler, executor, exc,
                   results, measured_models, new_models, missing_models,
                   futures, ci, report, dumping, intr, ghosts,
                   file_results, markdown, inputs>>

\* Lines 131-156: evaluator(sampler) returns; the details are saved and the
\* model_result is built.
EvalReturn(m, score) ==
    /\ pcMain # "off"
    /\ task[m].pc = "eval"
    /\ task' = [task EXCEPT ![m].pc = "save",
                            ![m].result = ModelResult(m, score, task[m].prompt, now)]
    /\ UNCHANGED <<files, now, runs, pcMain, exitPath, handler, executor, exc,
                   config_prompt, results, measured_models, new_models,
                   missing_models, futures, ci, report, dumping, intr, ghosts, aside>>

\* Lines 131-146: the sampler or the evaluator raises.
EvalRaise(m) ==
    /\ pcMain # "off"
    /\ task[m].pc = "eval"
    /\ task' = [task EXCEPT ![m].pc = "raised", ![m].err = "EvalError"]
    /\ UNCHANGED <<files, now, runs, pcMain, exitPath, handler, executor, exc,
                   config_prompt, results, measured_models, new_models,
                   missing_models, futures, ci, report, dumping, intr, ghosts, aside>>

\* Line 159 -> lines 62-63: open(cache_file, 'w') truncates the entry.
CacheOpen(m) ==
    /\ pcMain # "off"
    /\ task[m].pc = "save"
    /\ cache' = [cache EXCEPT ![task[m].result.cache_key] = Partial]
    /\ task' = [task EXCEPT ![m].pc = "dump"]
    /\ UNCHANGED <<snapshot, now, runs, pcMain, exitPath, handler, executor, exc,
                   config_prompt, results, measured_models, new_models,
                   missing_models, futures, ci, report, dumping, intr, ghosts, aside>>

\* Line 64 and the close of the with-block: the entry holds the record.
CacheClose(m) ==
    /\ pcMain # "off"
    /\ task[m].pc = "dump"
    /\ cache' = [cache EXCEPT ![task[m].result.cache_key] = task[m].result]
    /\ task' = [task EXCEPT ![m].pc = "insert"]
    /\ UNCHANGED <<snapshot, now, runs, pcMain, exitPath, handler, executor, exc,
                   config_prompt, results, measured_models, new_models,
                   missing_models, futures, ci, report, dumping, intr, ghosts, aside>>

\* Lines 162-163 -> line 90: the worker puts its record into self.results and
\* opens the snapshot file for writing.
InsertAndOpen(m) ==
    /\ pcMain # "off"
    /\ task[m].pc = "insert"
    /\ results' = Put(results, ResultId(task[m].result), task[m].result)
    /\ snapshot' = Partial
    /\ dumping' = [dumping EXCEPT ![m] = Dumping(DOMAIN results')]
    /\ task' = [task EXCEPT ![m].pc = "snap"]
    /\ UNCHANGED <<cache, now, runs, pcMain, exitPath, handler, executor, exc,
                   config_prompt, measured_models, new_models, missing_models,
                   futures, ci, report, intr, ghosts, aside>>

\* Line 91 and lines 165-168: the dump ends and evaluate_model returns.
SnapClose(m) ==
    /\ pcMain # "off"
    /\ task[m].pc = "snap"
    /\ snapshot' = CloseContent(m)
    /\ dumping' = [dumping EXCEPT ![m] = Idle]
    /\ task' = [task EXCEPT ![m].pc = "returned"]
    /\ served' = served \cup {task[m].result.cache_key}
    /\ UNCHANGED <<cache, now, runs, pcMain, exitPath, handler, executor, exc,
                   config_prompt, results, measured_models, new_models,
                   missing_models, futures, ci, report, intr, ghosts,
                   file_results, evals, markdown, inputs>>

\* Line 91: json.dump iterates self.results in Python code; a key put by
\* another thread meanwhile makes the iteration raise RuntimeError
\* (dictionary changed size during iteration).  What the dump wrote so far
\* is a prefix of what any other writer wrote.
SnapRaise(m) ==
    /\ pcMain # "off"
    /\ task[m].pc = "snap"
    /\ DOMAIN results # dumping[m].keys
    /\ dumping' = [dumping EXCEPT ![m] = Idle]
    /\ task' = [task EXCEPT ![m].pc = "raised", ![m].err = "RuntimeError"]
    /\ UNCHANGED <<files, now, runs, pcMain, exitPath, handler, executor, exc,
                   config_prompt, results, measured_models, new_models,
                   missing_models, futures, ci, report, intr, ghosts, aside>>

\* ------------------------------------------------------ the collecting loop

Collecting == pcMain = "collect" /\ ci \in DOMAIN futures

\* Lines 244-251, to the open of _save_to_cache: future.result returns the
\* record; it is put into self.results and its cache entry is opened for
\* writing again.
CollectResult ==
    /\ Collecting
    /\ task[futures[ci]].pc = "returned"
    /\ LET result == task[futures[ci]].result
       IN  /\ results' = Put(results, ResultId(result), result)
           /\ cache' = [cache EXCEPT
                  ![_get_cache_key(result.model_name, result.system_prompt)] = Partial]
    /\ report' = [report EXCEPT ![futures[ci]] = "Completed"]
    /\ pcMain' = "recache"
    /\ UNCHANGED <<snapshot, now, runs, exitPath, handler, executor, exc,
                   config_prompt, measured_models, new_models, missing_models,
                   futures, ci, task, dumping, intr, ghosts, aside>>

\* Lines 249-251 -> line 64 and the close: the entry holds the record again.
Recache ==
    /\ pcMain = "recache"
    /\ LET result == task[futures[ci]].result
       IN  cache' = [cache EXCEPT
                  ![_get_cache_key(result.model_name, result.system_prompt)] = result]
    /\ ci' = ci + 1
    /\ pcMain' = "collect"
    /\ UNCHANGED <<snapshot, now, runs, exitPath, handler, executor, exc,
                   config_prompt, results, measured_models, new_models,
                   missing_models, futures, task, report, dumping, intr, ghosts, aside>>

\* Lines 244, 252-253: future.result(timeout=300) gives up on a future that
\* is not done, whether its work item runs or still waits in the queue.
CollectTimeout ==
    /\ Collecting
    /\ ~Finished(task[futures[ci]])
    /\ report' = [report EXCEPT ![futures[ci]] = "TimedOut"]
    /\ ci' = ci + 1
    /\ UNCHANGED <<files, now, runs, pcMain, exitPath, handler, executor, exc,
                   config_prompt, results, measured_models, new_models,
                   missing_models, futures, task, dumping, intr, ghosts, aside>>

\* Lines 244, 254-255: future.result re-raises what evaluate_model raised.
CollectFailed ==
    /\ Collecting
    /\ task[futures[ci]].pc = "raised"
    /\ report' = [report EXCEPT ![futures[ci]] = "Failed"]
    /\ ci' = ci + 1
    /\ UNCHANGED <<files, now, runs, pcMain, exitPath, handler, executor, exc,
                   config_prompt, results, measured_models, new_models,
                   missing_models, futures, task, dumping, intr, ghosts, aside>>

AllJoined == \A m \in Submitted : Finished(task[m])

\* Line 256: the with-block ends in executor.shutdown(wait=True), which
\* returns when every work item has run to its end.
Join ==
    /\ pcMain = "collect"
    /\ ci > Len(futures)
    /\ AllJoined
    /\ executor' = "shutdown"
    /\ pcMain' = "finally"
    /\ UNCHANGED <<files, now, runs, exitPath, handler, exc, config_prompt,
                   results, measured_models, new_models, missing_models,
                   futures, ci, task, report, dumping, intr, ghosts, aside>>

\* Lines 257-259 -> line 90: the old handler is back and the snapshot file
\* is opened for writing.
Finally ==
    /\ pcMain = "finally"
    /\ handler' = "default"
    /\ snapshot' = Partial
    /\ dumping' = [dumping EXCEPT ![Main] = Dumping(DOMAIN results)]
    /\ pcMain' = "finsave"
    /\ UNCHANGED <<cache, now, runs, exitPath, executor, exc, config_prompt,
                   results, measured_models, new_models, missing_models,
                   futures, ci, task, report, intr, ghosts, aside>>

\* Line 91 in the finally block; then the exception in flight, if any, leaves
\* evaluate_all_models and main: SystemExit(0) ends the process cleanly,
\* another one with a traceback.
FinSave ==
    /\ pcMain = "finsave"
    /\ snapshot' = CloseContent(Main)
    /\ dumping' = [dumping EXCEPT ![Main] = Idle]
    /\ pcMain' = IF exc = None THEN "missing" ELSE "off"
    /\ exitPath' = IF exc = None THEN exitPath
                   ELSE IF exc = "SystemExit" THEN "clean" ELSE "crash"
    /\ UNCHANGED <<cache, now, runs, handler, executor, exc, config_prompt,
                   results, measured_models, new_models, missing_models,
                   futures, ci, task, report, intr, ghosts, aside>>

\* Lines 263-269 -> line 90: the missing models, then _save_results opens
\* the snapshot file.
Missing ==
    /\ pcMain = "missing"
    /\ missing_models' =
          config_models \ {results[i].model_name : i \in DOMAIN results}
    /\ snapshot' = Partial
    /\ dumping' = [dumping EXCEPT ![Main] = Dumping(DOMAIN results)]
    /\ pcMain' = "lastsave"
    /\ UNCHANGED <<cache, now, runs, exitPath, handler, executor, exc,
                   config_prompt, results, measured_models, new_models,
                   futures, ci, task, report, intr, ghosts, aside>>

\* Line 91, at the end of evaluate_all_models.
LastSave ==
    /\ pcMain = "lastsave"
    /\ snapshot' = CloseContent(Main)
    /\ dumping' = [dumping EXCEPT ![Main] = Idle]
    /\ pcMain' = "done"
    /\ UNCHANGED <<cache, now, runs, exitPath, handler, executor, exc,
                   config_prompt, results, measured_models, new_models,
                   missing_models, futures, ci, task, report, intr, ghosts, aside>>

\* Lines 336-340: main generates the report from self.results and returns;
\* the process ends normally.
Exit ==
    /\ pcMain = "done"
    /\ traversal' \in Orderings(results)
    /\ rows' = generate_markdown(traversal')
    /\ pcMain' = "off"
    /\ exitPath' = "clean"
    /\ UNCHANGED <<files, now, runs, handler, executor, exc, config_prompt,
                   results, measured_models, new_models, missing_models,
                   futures, ci, task, report, dumping, intr, ghosts,
                   file_results, evals, served, inputs>>

\* -------------------------------------------------------------- interrupts

\* SIGINT is delivered to the main thread (once per process here).
\*  - the default handler raises KeyboardInterrupt: outside lines 229-258
\*    nothing catches it and the process ends with a traceback;
\*  - handle_sigint (lines 223-226) before executor is bound by line 232:
\*    executor.shutdown raises NameError, which leaves through the finally
\*    block of line 257;
\*  - handle_sigint with executor bound: the main thread stays in
\*    executor.shutdown(wait=True).
Sigint ==
    /\ pcMain # "off"
    /\ ~intr
    /\ intr' = TRUE
    /\ IF handler = "default"
       THEN /\ pcMain' = "off"
            /\ exitPath' = "crash"
            /\ UNCHANGED exc
       ELSE IF executor = "unbound"
       THEN /\ pcMain' = "finally"
            /\ exc' = "NameError"
            /\ UNCHANGED exitPath
       ELSE /\ pcMain' = "sigwait"
            /\ UNCHANGED <<exc, exitPath>>
    /\ UNCHANGED <<files, now, runs, handler, executor, config_prompt, results,
                   measured_models, new_models, missing_models, futures, ci,
                   task, report, dumping, ghosts, aside>>

\* Lines 225-226: shutdown(wait=True) has joined the workers, which ran every
\* work item of the queue; sys.exit(0) raises SystemExit, which leaves
\* through the with-block and the finally block.
SigExit ==
    /\ pcMain = "sigwait"
    /\ AllJoined
    /\ executor' = "shutdown"
    /\ exc' = "SystemExit"
    /\ pcMain' = "finally"
    /\ UNCHANGED <<files, now, runs, exitPath, handler, config_prompt, results,
                   measured_models, new_models, missing_models, futures, ci,
                   task, report, dumping, intr, ghosts, aside>>

\* The process is killed (SIGKILL, power loss): every thread stops where it
\* is and the files stay as they are.
\* A kill of the last process of a behaviour is followed by no start and is
\* left out.
Crash ==
    /\ pcMain # "off"
    /\ runs < MaxRuns
    /\ pcMain' = "off"
    /\ exitPath' = "killed"
    /\ UNCHANGED <<files, now, runs, handler, executor, exc, config_prompt,
                   results, measured_models, new_models, missing_models,
                   futures, ci, task, report, dumping, intr, ghosts, aside>>

\* ------------------------------------------------------------ specification

Next ==
    \/ Startup
    \/ Plan
    \/ Install
    \/ OpenPool
    \/ \E m \in config_models : Submit(m)
    \/ \E m \in config_models : Start(m)
    \/ \E m \in config_models : \E score \in Scores : EvalReturn(m, score)
    \/ \E m \in config_models : EvalRaise(m)
    \/ \E m \in config_models : CacheOpen(m)
    \/ \E m \in config_models : CacheClose(m)
    \/ \E m \in config_models : InsertAndOpen(m)
    \/ \E m \in config_models : SnapClose(m)
    \/ \E m \in config_models : SnapRaise(m)
    \/ CollectResult
    \/ Recache
    \/ CollectTimeout
    \/ CollectFailed
    \/ Join
    \/ Finally
    \/ FinSave
    \/ Missing
    \/ LastSave
    \/ Exit
    \/ Sigint
    \/ SigExit
    \/ Crash

Spec == Init /\ [][Next]_vars

\* ------------------------------------------------------------------ claims

\* The main thread is past lines 187-221 of this process.
Planned == pcMain \notin {"off", "ready"}

HasRecord(m) == \E r \in CacheRecords(cache) : r.model_name = m

\* The work item's evaluator call returned (the model_result was built).
Evaluated(m) == task[m].result # NoResult /\ ~task[m].cached

\* C1: a task the collecting loop reported TimedOut leaves no cache record
\* for its model, so the model is among new_models in the next process; and
\* at the normal end of a process only tasks reported Completed have a record.
C1_TimedOutLeavesNoRecord ==
    /\ \A m \in config_models : report[m] = "TimedOut" => ~HasRecord(m)
    /\ (runs >= 2 /\ Planned) =>
          \A m \in config_models : lastReport[m] = "TimedOut" => m \in new_models
    /\ (pcMain = "off" /\ exitPath = "clean" /\ ~intr) =>
          \A m \in Submitted : HasRecord(m) => report[m] = "Completed"

\* C2: a task whose evaluate_model raised has no cache record under its
\* cache key, and its model is among new_models in the next process.
C2_FailedLeavesNoRecord ==
    /\ \A m \in config_models :
          task[m].pc = "raised" => cache[KeyOf(m)] = Absent
    /\ (runs >= 2 /\ Planned) =>
          \A m \in config_models : lastReport[m] = "Failed" => m \in new_models

\* C3: in every state where a task is Completed (its future holds the
\* result of an evaluation), the cache entry of its key holds its record.
C3_CompletedHasCacheRecord ==
    \A m \in config_models :
        (pcMain # "off" /\ task[m].pc = "returned") =>
            cache[task[m].result.cache_key] = task[m].result

\* C4: after a process was killed, the next process starts, and its
\* new_models are exactly the configured models whose evaluation record had
\* not been written; none of the others is evaluated again.
C4_RestartSchedulesTheRest ==
    lastExit = "killed" =>
        /\ exitPath # "startup_error"
        /\ Planned => new_models = config_models \ doneBefore
        /\ \A m \in doneBefore : ~Started(task[m])

\* C5: at the end of a round in which some task failed or timed out, every
\* other task whose evaluator call returned (and which the collecting loop
\* did not itself time out) is reported Completed and has its record in the
\* cache and in self.results.
C5_SiblingsUnaffected ==
    (pcMain = "finally" /\ exc = None /\ ~intr) =>
        \A m \in Submitted :
            ( /\ \E f \in Submitted \ {m} : report[f] \in {"TimedOut", "Failed"}
              /\ Evaluated(m)
              /\ report[m] # "TimedOut" )
            => /\ report[m] = "Completed"
               /\ cache[KeyOf(m)] = task[m].result
               /\ ResultId(task[m].result) \in DOMAIN results

\* C6: the snapshot file is written by the main thread only, after every
\* work item of the round has ended, and never by two writers at once.
C6_SnapshotSingleWriter ==
    \A t \in Threads :
        dumping[t].open =>
            /\ t = Main
            /\ AllJoined
            /\ \A u \in Threads \ {t} : ~dumping[u].open

\* C7: while _save_to_cache writes an entry, a reader of that entry gets the
\* previous content (or none) or the new record, never an error from a
\* half-written file.
C7_CacheWriteAtomic ==
    /\ \A m \in config_models :
          (pcMain # "off" /\ task[m].pc = "dump") =>
              _get_cached_result(cache, task[m].result.cache_key) # JSONDecodeError
    /\ pcMain = "recache" =>
          _get_cached_result(cache, task[futures[ci]].result.cache_key) # JSONDecodeError

\* C8: a cache holding one malformed entry among valid ones does not make
\* the load of __init__ end in an error.
C8_CorruptEntrySkipped ==
    ~( /\ exitPath = "startup_error"
       /\ snapshot # Partial
       /\ ScanRaises(cache)
       /\ CacheRecords(cache) # {} )

\* C9: once SIGINT was delivered to the process, no work item that has not
\* started is started.
C9_NoStartAfterInterrupt ==
    [][intr => \A m \in config_models :
                  ~Started(task[m]) => ~Started(task'[m])]_vars

\* C10: a process that got SIGINT ends through sys.exit(0), and at its end
\* every evaluation record it wrote is in the cache and in the snapshot.
C10_InterruptFlushes ==
    (pcMain = "off" /\ intr /\ exitPath # "killed") =>
        /\ exitPath = "clean"
        /\ \A m \in config_models :
              Wrote(task[m]) =>
                  /\ cache[KeyOf(m)] = task[m].result
                  /\ snapshot.st = "dict"
                  /\ ResultId(task[m].result) \in DOMAIN snapshot.d

\* ======================================================= the key derivation

\* Parameter sets handed to _get_cache_key: model names that differ only in
\* '/' against '_', an absent against an empty system prompt, and two values
\* of each configuration field.
KeyModels == {MA, SafeName(MA), MB}
KeyPrompts == {None, "", "pa"}
KeyConfigs == [num_examples : {1, 2}, temperature : {0, 1}, max_tokens : {1, 2}]
KeyParams == [model_name : KeyModels, system_prompt : KeyPrompts, cfg : KeyConfigs]

InitKey ==
    /\ InitStore /\ InitProcess /\ InitCalls /\ InitMarkdown
    /\ params \in KeyParams \X KeyParams
    /\ derived = << >>

\* _get_cache_key on both parameter sets (lines 38-50).
Derive ==
    /\ derived = << >>
    /\ derived' = [i \in {1, 2} |->
                      CacheStr(params[i].model_name, params[i].system_prompt,
                               params[i].cfg)]
    /\ UNCHANGED <<files, now, runs, pcMain, exitPath, handler, executor, exc,
                   config_prompt, results, measured_models, new_models,
                   missing_models, futures, ci, task, report, dumping, intr,
                   ghosts, file_results, evals, served, markdown, calls, params>>

SpecKey == InitKey /\ [][Derive]_vars

\* C11: two parameter sets get the same cache key exactly when all their
\* fields are equal.
C11_KeyInjective ==
    derived # << >> => (derived[1] = derived[2] <=> params[1] = params[2])

\* ================================================ evaluate_model called directly

\* Number of calls of evaluate_model a caller makes on one Leaderboard.
MaxCalls == 3

\* The system_prompt arguments of those calls.
ApiPrompts == {None, "pa"}

\* A Leaderboard constructed on an empty output directory, in the hands of a
\* caller that uses evaluate_model itself.
InitApi ==
    /\ InitStore /\ InitMemory /\ InitCalls /\ InitMarkdown /\ InitKeys
    /\ now = 0
    /\ runs = 0
    /\ pcMain = "api"

\* evaluate_model(m, system_prompt), called when the previous call has ended
\* (by return or by exception).  The call is held as the one work item, which
\* Start takes; calls are at least a second apart.
Request(m, system_prompt) ==
    /\ pcMain = "api"
    /\ calls < MaxCalls
    /\ \A x \in config_models : task[x].pc \in {"none", "returned", "raised"}
    /\ calls' = calls + 1
    /\ now' = now + 1
    /\ futures' = <<m>>
    /\ task' = [x \in config_models |->
                   IF x = m THEN [NoTask EXCEPT !.pc = "queued", !.prompt = system_prompt]
                   ELSE NoTask]
    /\ UNCHANGED <<files, runs, pcMain, exitPath, handler, executor, exc,
                   config_prompt, results, measured_models, new_models,
                   missing_models, ci, report, dumping, intr, ghosts,
                   file_results, evals, served, markdown, params, derived>>

NextApi ==
    \/ \E m \in config_models, system_prompt \in ApiPrompts : Request(m, system_prompt)
    \/ \E m \in config_models : Start(m)
    \/ \E m \in config_models, score \in Scores : EvalReturn(m, score)
    \/ \E m \in config_models : EvalRaise(m)
    \/ \E m \in config_models : CacheOpen(m)
    \/ \E m \in config_models : CacheClose(m)
    \/ \E m \in config_models : InsertAndOpen(m)
    \/ \E m \in config_models : SnapClose(m)

SpecApi == InitApi /\ [][NextApi]_vars

\* C12 as stated: over calls of evaluate_model with the same parameters the
\* evaluator is called at most once.
C12_EvaluatedAtMostOnce == \A k \in CacheKeys : evals[k] <= 1

\* C12 amended: once a call of evaluate_model has returned a record, a later
\* call with the same parameters returns the record the cache holds for
\* their key and does not call the evaluator.
C12_ServedFromCache ==
    [][\A m \in config_models :
          ( /\ task[m].pc = "queued"
            /\ task'[m].pc # "queued"
            /\ _get_cache_key(m, task[m].prompt) \in served )
          => /\ task'[m].pc = "returned"
             /\ task'[m].cached
             /\ task'[m].result = cache[_get_cache_key(m, task[m].prompt)]
             /\ evals' = evals]_vars

\* A second call was served from the cache after the first one evaluated.
C12_Witness ==
    \E m \in config_models :
        /\ calls >= 2
        /\ task[m].pc = "returned"
        /\ task[m].cached
        /\ evals[_get_cache_key(m, task[m].prompt)] = 1

\* C20: evaluate_model leaves self.config as it was loaded, and a call
\* without system_prompt runs the sampler without a system prompt put there
\* by an earlier call.
C20_ConfigUnchanged ==
    /\ config_prompt = [m \in config_sections |-> None]
    /\ \A m \in config_models :
          (task[m].pc = "eval" /\ task[m].prompt = None) =>
              task[m].sampler_prompt = None

\* ============================================ one round on a used directory

\* Records left in the cache by earlier processes, which ran with other
\* system_prompts arguments and another model_list.
OldRecords ==
    {ModelResult(MA, 1, "pa", 0), ModelResult(MA, 1, None, 1),
     ModelResult(MB, 1, "pb", 0), ModelResult(MD, 1, None, 0)}

\* Records the snapshot file holds for the same identities.
OldSnapshotRecords ==
    {ModelResult(MA, 2, "pa", 0), ModelResult(MB, 2, None, 0),
     ModelResult(MD, 2, None, 0)}

\* The cache directory holding the records rs, one file per cache key.
CacheOf(rs) ==
    [k \in CacheKeys |->
        IF \E r \in rs : r.cache_key = k
        THEN CHOOSE r \in rs : r.cache_key = k
        ELSE Absent]

\* The snapshot dictionary holding the records rs under their keys.
DictOf(rs) ==
    [i \in {ResultId(r) : r \in rs} |-> CHOOSE r \in rs : ResultId(r) = i]

InitRound ==
    /\ \E rs \in SUBSET OldRecords : cache = CacheOf(rs)
    /\ \/ snapshot = Absent
       \/ \E rs \in SUBSET OldSnapshotRecords : snapshot = Dict(DictOf(rs))
    /\ InitMemory /\ InitCalls /\ InitMarkdown /\ InitKeys
    /\ now = 1
    /\ runs = MaxRuns - 1
    /\ pcMain = "off"

\* main() once, not killed.
NextRound ==
    \/ Startup
    \/ Plan
    \/ Install
    \/ OpenPool
    \/ \E m \in config_models : Submit(m)
    \/ \E m \in config_models : Start(m)
    \/ \E m \in config_models : \E score \in Scores : EvalReturn(m, score)
    \/ \E m \in config_models : EvalRaise(m)
    \/ \E m \in config_models : CacheOpen(m)
    \/ \E m \in config_models : CacheClose(m)
    \/ \E m \in config_models : InsertAndOpen(m)
    \/ \E m \in config_models : SnapClose(m)
    \/ \E m \in config_models : SnapRaise(m)
    \/ CollectResult
    \/ Recache
    \/ CollectTimeout
    \/ CollectFailed
    \/ Join
    \/ Finally
    \/ FinSave
    \/ Missing
    \/ LastSave
    \/ Exit
    \/ Sigint
    \/ SigExit

SpecRound == InitRound /\ [][NextRound]_vars

\* The model names of the records of a result dictionary.
ModelNames(d) == {d[i].model_name : i \in DOMAIN d}

\* C13: new_models is computed once, before any submit, as the configured
\* models without a cache record of their name, whatever the system prompt of
\* that record; it stays as computed while cache entries appear, only its
\* members are submitted, and all of them are once the collecting loop runs.
C13_PendingSetFixed ==
    [][ /\ (pcMain = "ready" /\ Planned') =>
              new_models' = {m \in config_models :
                                ~\E k \in DOMAIN cache :
                                    IsRecord(cache[k]) /\ cache[k].model_name = m}
        /\ (Planned /\ Planned') => new_models' = new_models
        /\ Submitted' \subseteq new_models'
        /\ pcMain' \in {"collect", "recache"} => Submitted' = new_models'
      ]_vars

\* The collecting loop runs, a configured model whose only cache records were
\* made with another system prompt was not submitted, and a submitted task
\* has written its cache entry since.
C13_Witness ==
    /\ pcMain = "collect"
    /\ \E m \in config_models \ Submitted :
          /\ HasRecord(m)
          /\ \A r \in CacheRecords(cache) :
                r.model_name = m => r.system_prompt # PromptOf(m)
    /\ \E n \in Submitted : Wrote(task[n])

\* C14 as stated: an identity the snapshot file held at startup, with a
\* differing record in the cache, is mapped by self.results to the
\* snapshot's record as long as the process lives, and the snapshot written
\* at the end of the round holds that record.
C14_SnapshotWins ==
    \A id \in DOMAIN file_results :
        (\E r \in CacheRecords(cache) : ResultId(r) = id /\ r # file_results[id])
        => /\ pcMain # "off" => results[id] = file_results[id]
           /\ pcMain = "done" =>
                 snapshot.st = "dict" /\ snapshot.d[id] = file_results[id]

\* C14 amended: the snapshot's record holds from __init__ to the hydration
\* of lines 203-212; from there on an identity of a configured model with
\* cache records is mapped to the cache record the loop picked, if it picked
\* one of that identity, and the snapshot written at the end holds
\* self.results as it then is.
C14_SnapshotUntilHydration ==
    /\ pcMain = "ready" =>
          \A id \in DOMAIN file_results : results[id] = file_results[id]
    /\ Planned =>
          \A id \in DOMAIN file_results :
              LET recs == {r \in CacheRecords(cache) : r.model_name = id[1]}
              IN  IF id[1] \notin config_models \cap measured_models
                  THEN results[id] = file_results[id]
                  ELSE IF \A r \in recs : ResultId(r) = id
                  THEN results[id] \in recs
                  ELSE results[id] = file_results[id] \/ results[id] \in recs
    /\ pcMain = "done" => snapshot = Dict(results)

\* At the end of the round the snapshot holds the cache's record for an
\* identity for which the snapshot file held another record at startup.
C14_Witness ==
    /\ pcMain = "done"
    /\ \E id \in DOMAIN file_results :
          /\ results[id] # file_results[id]
          /\ results[id] \in CacheRecords(cache)
          /\ snapshot.d[id] = results[id]

\* C17: at the end of a round missing_models is the configured models
\* without a record in self.results; evaluate_all_models still writes the
\* snapshot and main still generates the report, which has one row for each
\* model with a record.
C17_MissingModelsWarned ==
    /\ pcMain \in {"lastsave", "done"} =>
          missing_models = config_models \ ModelNames(results)
    /\ pcMain = "done" => snapshot = Dict(results)
    /\ (pcMain = "off" /\ exitPath = "clean" /\ ~intr) =>
          /\ snapshot = Dict(results)
          /\ {rows[i].model_name : i \in DOMAIN rows} = ModelNames(results)
          /\ Len(rows) = Cardinality(ModelNames(results))

\* main has ended after a round that warned of a missing model, and the
\* report has fewer rows than self.results has records.
C17_Witness ==
    /\ pcMain = "off" /\ exitPath = "clean" /\ ~intr
    /\ missing_models # {}
    /\ Len(rows) >= 1
    /\ Len(rows) < Cardinality(DOMAIN results)

\* ================================================ generate_markdown on its own

\* Number of records in self.results when the report is generated.
MaxLen == 3

\* Records of two models, with equal and with different scores.
ReportRecords ==
    {ModelResult(m, score, None, ts) : m \in {MA, MB}, score \in Scores, ts \in 1..MaxLen}

\* self.results.values(): records under distinct keys, in any order.
InitReport ==
    /\ InitStore /\ InitProcess /\ InitCalls /\ InitKeys
    /\ traversal \in {vals \in UNION {[1..n -> ReportRecords] : n \in 1..MaxLen} :
                        \A i, j \in DOMAIN vals :
                            ResultId(vals[i]) = ResultId(vals[j]) => i = j}
    /\ rows = << >>

Generate ==
    /\ rows = << >>
    /\ rows' = generate_markdown(traversal)
    /\ UNCHANGED <<files, now, runs, pcMain, exitPath, handler, executor, exc,
                   config_prompt, results, measured_models, new_models,
                   missing_models, futures, ci, task, report, dumping, intr,
                   ghosts, file_results, evals, served, traversal, inputs>>

SpecReport == InitReport /\ [][Generate]_vars

\* C16: the table has one row for each model name among the records, and the
\* row of a model is that of its record of greatest score, of the first such
\* record in the order of iteration when several have that score.
C16_BestOfRows ==
    rows # << >> =>
        /\ \A i, j \in DOMAIN rows : rows[i].model_name = rows[j].model_name => i = j
        /\ {rows[i].model_name : i \in DOMAIN rows} =
              {traversal[k].model_name : k \in DOMAIN traversal}
        /\ \A i \in DOMAIN rows :
              \E k \in DOMAIN traversal :
                  /\ traversal[k].model_name = rows[i].model_name
                  /\ traversal[k].timestamp = rows[i].timestamp
                  /\ traversal[k].score = rows[i].score
                  /\ \A j \in DOMAIN traversal :
                        traversal[j].model_name = rows[i].model_name =>
                            /\ traversal[j].score <= traversal[k].score
                            /\ traversal[j].score = traversal[k].score => k <= j

\* Two records of one model tie for its greatest score and the row is that
\* of the one iterated first.
C16_Witness ==
    \E j, k \in DOMAIN traversal :
        /\ j < k
        /\ traversal[j].model_name = traversal[k].model_name
        /\ traversal[j].score = traversal[k].score
        /\ \E i \in DOMAIN rows :
              /\ rows[i].model_name = traversal[j].model_name
              /\ rows[i].timestamp = traversal[j].timestamp
        /\ \A l \in DOMAIN traversal :
              traversal[l].model_name = traversal[j].model_name =>
                  traversal[l].score <= traversal[j].score

\* ------------------------------------------- claims on the round, continued

\* C15: the identities in self.results never get fewer, over the steps of a
\* process and from a process to the next one that starts, and a snapshot
\* write that lands on a snapshot holds every identity of that snapshot.
C15_AppendOnly ==
    [][ /\ pcMain' # "off" => DOMAIN results \subseteq DOMAIN results'
        /\ \A t \in Threads :
              ( /\ dumping[t].open
                /\ ~dumping'[t].open
                /\ snapshot.st = "dict"
                /\ snapshot' # snapshot )
              => DOMAIN snapshot.d \subseteq dumping[t].keys
      ]_vars

\* C18: the collecting loop reports a task TimedOut only while the task is
\* running, never while its work item still waits in the queue.
C18_TimedOutOnlyRunning ==
    [][\A m \in config_models :
          (report[m] # "TimedOut" /\ report'[m] = "TimedOut") => Running(task[m])]_vars

\* C19: once the collecting loop has reported every task, the main thread
\* can leave the with-block and go on to the snapshot write, whether or not
\* the evaluator call of a timed-out task has returned.
C19_RoundEndsWithoutWaiting ==
    (pcMain = "collect" /\ ci > Len(futures)) => ENABLED Join

====
